---- MODULE Spec2Model ----
(***************************************************************************)
(* A model of the pianist pipeline: the per-finger press/release state     *)
(* machine and the hand processor (detector/hand_detector.py), the         *)
(* reconnecting camera source (sources/camera.py), the asynchronous frame  *)
(* writer (extractor/async_writer.py), the telemetry state (telemetry.py), *)
(* the file sources (sources/video_file.py, sources/jpeg_source.py) and    *)
(* the main program that runs them (main.py).                              *)
(*                                                                         *)
(* Each component has its own specification over the shared variables:     *)
(*   SpecFinger   one FingerState fed booleans, one per update call        *)
(*   SpecProc     HandProcessor.process driving the five FingerStates      *)
(*   SpecCamera   LiveCameraSource.frames() pulled by a consumer           *)
(*   SpecWriter   AsyncWriter used by one thread, as main.py uses it       *)
(*   SpecWriterMT AsyncWriter used by several producer threads             *)
(*   SpecWriterOverlay  the main loop writing a frame, then drawing on it  *)
(*   SpecDetect   HeuristicFingerDetector.detect on one hand of landmarks  *)
(*   SpecTelemetry  SharedState updated and read by two threads            *)
(*   SpecSources  frames() of a VideoFileSource or a JpegFileSource        *)
(*   SpecStartup  main.py from the parsed arguments to the main loop       *)
(*   SpecMain     the main loop, its four ways out and the finally clause   *)
(*   SpecPipe     the main thread on a camera, the worker, the HTTP thread  *)
(*                                                                         *)
(* time.time() is the variable now, counted in ticks of 1/TicksPerMs       *)
(* milliseconds. It never runs backwards in this model (no step of the     *)
(* system clock), and it may stand still between two readings.             *)
(***************************************************************************)
EXTENDS Integers, Sequences, FiniteSets, TLC

\* ------------------------------------------------------------------ bounds
\* Last clock reading explored.
MaxClock == 3
\* Clock ticks per millisecond (time.time() resolves finer than 1 ms).
TicksPerMs == 2
\* update calls on the single FingerState of SpecFinger.
MaxLen == 4
\* process calls of SpecProc.
MaxFrames == 3
\* Steps of frames() that cam_log keeps.
MaxCamLog == 6
\* Frames the camera device delivers before every further read fails.
MaxCamFrames == 2
\* write calls on the AsyncWriter.
MaxWrites == 3
\* update calls on the SharedState.
MaxUpdates == 2
\* get_snapshot calls on the SharedState.
MaxSnapshots == 2
\* Frames of the video file at most.
MaxVideoFrames == 3
\* .jpg files of the directory at most.
MaxImages == 3
\* frames() calls on one source object.
MaxIterations == 2
\* Entries main's loop takes from source.frames().
MaxEntries == 3
\* detect calls of SpecDetect on its hand.
MaxDetects == 2

\* --------------------------------------------------------------- constants
FINGER_TIPS == <<4, 8, 12, 16, 20>>
FINGER_MCP == <<2, 5, 9, 13, 17>>
FINGER_NAMES == <<"Thumb", "Index", "Middle", "Ring", "Pinky">>
\* The offset 0.02 of the heuristic; landmark coordinates count hundredths.
PressOffset == 2
\* HandLandmarkerOptions(num_hands=1)
num_hands == 1
\* The width of the counter in f"frame_{self.frame_count:05d}.jpg".
NameWidth == 5

VARIABLES
  now,          \* the reading time.time() returns, in ticks
  fs,           \* SpecFinger: the FingerState under test
  calls,        \* SpecFinger: one record per update call made so far
  finger_states,  \* HandProcessor.finger_states
  logger,       \* HandProcessor.logger is set (log_data)
  hp_pc,        \* where HandProcessor.process stands
  timestamp_ms, \* process: timestamp_ms
  result,       \* process: result.hand_landmarks
  hand_i,       \* process: position of the loop over result.hand_landmarks
  pressed_states, \* process: pressed_states
  finger_i,     \* process: i of the loop over pressed_states
  events,       \* process: events
  ts_log,       \* the timestamps handed to detect_for_video so far
  returned,     \* what the process calls so far returned (their event lists)
  pre_states,   \* finger_states as the process call under way found them
  detect_calls, \* the strategy calls of the process call under way
  updates,      \* the update calls of the process call under way, in order
  cap,          \* LiveCameraSource.cap: "None" or "Opened"
  cam_fps,      \* LiveCameraSource._fps: "None" or "Set"
  frame_idx,    \* frames(): frame_idx
  cam_pc,       \* where the generator frames() stands
  cam_log,      \* what frames() did so far, its first MaxCamLog steps
  threads,      \* the threads that use the AsyncWriter
  queue,        \* AsyncWriter.queue: the (frame copy, filename) pairs waiting
  unfinished,   \* AsyncWriter.queue's count of tasks put and not yet task_done
  stopped,      \* AsyncWriter.stopped
  frame_count,  \* AsyncWriter.frame_count
  w_pc,         \* where AsyncWriter._worker stands
  item,         \* _worker: item
  files,        \* the output directory: the (filename, frame) pairs on disk
  t_pc,         \* per thread: where its write() or stop() call stands
  t_frame,      \* per thread: write's frame
  t_filename,   \* per thread: write's filename
  t_count,      \* per thread: frame_count as read for frame_count += 1
  n_writes,     \* write calls made so far
  stop_state,   \* stop(): "no" (not called), "called", "returned"
  enq_log,      \* every task put on the queue, in the order of the puts
  write_log,    \* every task handed to cv2.imwrite, in that order
  failed,       \* the tasks whose cv2.imwrite failed
  before_stop,  \* the tasks whose write() had returned when stop() was called
  pixels,       \* the image arrays alive: array -> its content
  at_write,     \* frame number -> the content of its array when write was called
  img_log,      \* the content handed to each cv2.imwrite, in that order
  hand_lms,     \* SpecDetect: the hand handed to HeuristicFingerDetector.detect
  detect_rets,  \* SpecDetect: what the detect calls so far returned
  lock,         \* SharedState._lock: "free", or the method that holds it
  fps,          \* SharedState.fps, in thousandths
  hands_detected,  \* SharedState.hands_detected
  status,       \* SharedState.status
  state_start_time,  \* SharedState.start_time
  u_pc,         \* where the update call of the main loop stands
  u_args,       \* update: its arguments fps, hands_detected
  s_pc,         \* where the get_snapshot call of the HTTP thread stands
  snapshot,     \* get_snapshot: the dict under construction
  upd_log,      \* the arguments of every update call that took the lock
  released,     \* the update calls that have released the lock
  s_released,   \* get_snapshot: what released was when it took the lock
  snap_log,     \* every snapshot returned, with s_released of its call
  src_kind,     \* the source object: "video" (VideoFileSource) or "jpeg"
  vcap,         \* VideoFileSource.cap: is it opened, and the next frame it reads
  n_frames,     \* the frames of the video file
  image_files,  \* JpegFileSource.image_files: per file, can cv2.imread read it
  src_pc,       \* where the generator frames() of the source stands
  src_idx,      \* frames(): frame_idx, or idx of enumerate
  yielded,      \* per frames() call so far, the entries it yielded
  args,         \* main: the command line and what it finds on the machine
  source,       \* main: source, the class of the object or "None"
  writer,       \* main: writer, "AsyncWriter" or "None"
  main_pc,      \* where main stands
  main_entry,   \* main's loop: the entry of source.frames() at hand
  n_entries,    \* main's loop: the entries taken from source.frames() so far
  n_processed,  \* main's loop: the processor.process calls that returned
  n_skipped,    \* main's loop: the entries it skipped
  cause,        \* why main left its loop
  cut_writes    \* the write calls that an interrupt cut short

fingerVars == <<fs, calls>>
procVars == <<finger_states, logger, hp_pc, timestamp_ms, result, hand_i,
              pressed_states, finger_i, events, ts_log, returned, pre_states,
              detect_calls, updates>>
camVars == <<cap, cam_fps, frame_idx, cam_pc, cam_log>>
writerVars == <<threads, queue, unfinished, stopped, frame_count, w_pc, item,
                files, t_pc, t_frame, t_filename, t_count, n_writes,
                stop_state, enq_log, write_log, failed, before_stop,
                pixels, at_write, img_log>>
detectVars == <<hand_lms, detect_rets>>
telVars == <<lock, fps, hands_detected, status, state_start_time, u_pc, u_args,
            s_pc, snapshot, upd_log, released, s_released, snap_log>>
srcVars == <<src_kind, vcap, n_frames, image_files, src_pc, src_idx, yielded>>
mainVars == <<args, source, writer, main_pc, main_entry, n_entries, n_processed,
             n_skipped, cause, cut_writes>>
vars == <<now, fingerVars, procVars, camVars, writerVars, detectVars, telVars, srcVars, mainVars>>

\* ------------------------------------------------------------------- clock
\* Time passes between two statements.
Tick ==
  /\ now < MaxClock
  /\ now' = now + 1
  /\ UNCHANGED <<fingerVars, procVars, camVars, writerVars, detectVars, telVars, srcVars, mainVars>>

\* ------------------------------------------------------------- FingerState
\* None is the empty tuple, a returned event the one-element tuple.
None == <<>>

KeyPressEvent(finger_name, start_time, duration) ==
  [finger_name |-> finger_name, start_time |-> start_time, duration |-> duration]

\* FingerState(name): is_pressed = False, press_start_time = 0.0
FingerState(name) ==
  [name |-> name, is_pressed |-> FALSE, press_start_time |-> 0]

\* A FingerState.update that also reports the press (an event on the way down).
FingerState_update_OnPress(self, pressed_now, t) ==
  IF pressed_now /\ ~self.is_pressed
    THEN [self  |-> [self EXCEPT !.is_pressed = TRUE, !.press_start_time = t],
          event |-> <<KeyPressEvent(self.name, t, 0)>>]
    ELSE IF ~pressed_now /\ self.is_pressed
      THEN [self  |-> [self EXCEPT !.is_pressed = FALSE],
            event |-> <<KeyPressEvent(self.name, self.press_start_time,
                                      t - self.press_start_time)>>]
      ELSE [self |-> self, event |-> None]

\* A FingerState.update that restarts the press timer on every pressed frame.
FingerState_update_Restart(self, pressed_now, t) ==
  IF pressed_now
    THEN [self  |-> [self EXCEPT !.is_pressed = TRUE, !.press_start_time = t],
          event |-> None]
    ELSE IF self.is_pressed
      THEN [self  |-> [self EXCEPT !.is_pressed = FALSE],
            event |-> <<KeyPressEvent(self.name, self.press_start_time,
                                      t - self.press_start_time)>>]
      ELSE [self |-> self, event |-> None]

\* A FingerState.update that stamps the event with the release time.
FingerState_update_ReleaseStamp(self, pressed_now, t) ==
  IF pressed_now /\ ~self.is_pressed
    THEN [self  |-> [self EXCEPT !.is_pressed = TRUE, !.press_start_time = t],
          event |-> None]
    ELSE IF ~pressed_now /\ self.is_pressed
      THEN [self  |-> [self EXCEPT !.is_pressed = FALSE],
            event |-> <<KeyPressEvent(self.name, t, t - self.press_start_time)>>]
      ELSE [self |-> self, event |-> None]

\* FingerState.update(pressed_now), t being the reading of time.time() the
\* call takes (each branch reads the clock once). Gives the object after the
\* call and the value returned.
FingerState_update(self, pressed_now, t) ==
  IF pressed_now /\ ~self.is_pressed
    THEN [self  |-> [self EXCEPT !.is_pressed = TRUE, !.press_start_time = t],
          event |-> None]
    ELSE IF ~pressed_now /\ self.is_pressed
      THEN [self  |-> [self EXCEPT !.is_pressed = FALSE],
            event |-> <<KeyPressEvent(self.name, self.press_start_time,
                                      t - self.press_start_time)>>]
      ELSE [self |-> self, event |-> None]

\* One call fs.update(pressed_now); calls keeps what went in and came out.
Update ==
  /\ Len(calls) < MaxLen
  /\ \E pressed_now \in BOOLEAN :
       LET r == FingerState_update(fs, pressed_now, now) IN
         /\ fs' = r.self
         /\ calls' = Append(calls, [pressed_now |-> pressed_now, at |-> now,
                                    pre |-> fs, post |-> r.self, ret |-> r.event])
  /\ UNCHANGED <<now, procVars, camVars, writerVars, detectVars, telVars, srcVars, mainVars>>

\* HandProcessor.__init__: five idle FingerStates, no frame processed yet.
InitProcVars ==
  /\ finger_states = [i \in 1..Len(FINGER_NAMES) |-> FingerState(FINGER_NAMES[i])]
  /\ hp_pc = "idle"
  /\ timestamp_ms = 0
  /\ result = <<>>
  /\ hand_i = 0
  /\ pressed_states = <<>>
  /\ finger_i = 0
  /\ events = <<>>
  /\ ts_log = <<>>
  /\ returned = <<>>
  /\ pre_states = finger_states
  /\ detect_calls = 0
  /\ updates = <<>>

\* LiveCameraSource.__init__, and frames() called but not yet asked for an entry.
InitCamVars ==
  /\ cap = "None"
  /\ cam_fps = "None"
  /\ frame_idx = 0
  /\ cam_pc = "start"
  /\ cam_log = <<>>

\* AsyncWriter.__init__ for the threads ts: an empty queue, the worker
\* started, nothing written.
InitWriterVars(ts) ==
  /\ threads = ts
  /\ queue = <<>>
  /\ unfinished = 0
  /\ stopped = FALSE
  /\ frame_count = 0
  /\ w_pc = "loop"
  /\ item = <<>>
  /\ files = {}
  /\ t_pc = [t \in ts |-> "idle"]
  /\ t_frame = [t \in ts |-> None]
  /\ t_filename = [t \in ts |-> <<>>]
  /\ t_count = [t \in ts |-> 0]
  /\ n_writes = 0
  /\ stop_state = "no"
  /\ enq_log = <<>>
  /\ write_log = <<>>
  /\ failed = {}
  /\ before_stop = {}
  /\ pixels = <<>>
  /\ at_write = <<>>
  /\ img_log = <<>>

\* No hand under test: the strategy is only called from process.
InitDetectVars ==
  /\ hand_lms = <<>>
  /\ detect_rets = <<>>

\* The dict of get_snapshot with none of its values read yet.
NoSnapshot ==
  [status |-> "", current_fps |-> 0, hands_detected |-> 0, uptime_seconds |-> 0]

\* SharedState.__init__, no call under way.
InitTelVars ==
  /\ lock = "free"
  /\ fps = 0
  /\ hands_detected = 0
  /\ state_start_time = now
  /\ status = "initializing"
  /\ u_pc = "idle"
  /\ u_args = [fps |-> 0, hands_detected |-> 0]
  /\ s_pc = "idle"
  /\ snapshot = NoSnapshot
  /\ upd_log = <<>>
  /\ released = 0
  /\ s_released = 0
  /\ snap_log = <<>>

\* No file source under test.
InitSrcVars ==
  /\ src_kind = "none"
  /\ vcap = [opened |-> FALSE, pos |-> 0]
  /\ n_frames = 0
  /\ image_files = <<>>
  /\ src_pc = "new"
  /\ src_idx = 0
  /\ yielded = <<>>

\* A command line not under test: main has not been started.
NoArgs ==
  [input_type |-> "camera", path_ok |-> TRUE, model_ok |-> TRUE,
   port_ok |-> TRUE, no_display |-> FALSE]

\* main is not running.
InitMainVars ==
  /\ args = NoArgs
  /\ source = "None"
  /\ writer = "None"
  /\ main_pc = "off"
  /\ main_entry = "None"
  /\ n_entries = 0
  /\ n_processed = 0
  /\ n_skipped = 0
  /\ cause = "none"
  /\ cut_writes = 0

InitFinger ==
  /\ now = 1
  /\ fs \in {FingerState(FINGER_NAMES[i]) : i \in 1..Len(FINGER_NAMES)}
  /\ calls = <<>>
  /\ logger = FALSE
  /\ InitProcVars
  /\ InitCamVars
  /\ InitWriterVars({"main"})
  /\ InitDetectVars
  /\ InitTelVars
  /\ InitSrcVars
  /\ InitMainVars

NextFinger == Tick \/ Update

SpecFinger == InitFinger /\ [][NextFinger]_vars

\* ------------------------------------------------- FingerState: properties
\* The boolean fed by call i, and the one fed just before it (false before
\* the first call).
Fed(i) == calls[i].pressed_now
FedBefore(i) == IF i = 1 THEN FALSE ELSE calls[i - 1].pressed_now

\* The calls that fed false right after true, and the calls that returned an event.
FallingEdges == {i \in 1..Len(calls) : FedBefore(i) /\ ~Fed(i)}
EventCalls == {i \in 1..Len(calls) : calls[i].ret # None}

\* The last call before i that fed true right after false: the press that a
\* release at call i ends.
RisingEdgesBefore(i) == {k \in 1..(i - 1) : Fed(k) /\ ~FedBefore(k)}
LastPressBefore(i) ==
  CHOOSE k \in RisingEdgesBefore(i) : \A m \in RisingEdgesBefore(i) : m <= k

\* C1: whatever booleans a fresh FingerState is fed, one per update call, the
\* number of calls that return a KeyPressEvent equals the number of
\* true-to-false transitions of the input (false before the first input).
C1_EventsCountFallingEdges ==
  Cardinality(EventCalls) = Cardinality(FallingEdges)

\* Two full press/release cycles have been fed.
C1_Witness ==
  /\ Cardinality(FallingEdges) = 2
  /\ Cardinality(EventCalls) = 2

\* C2: update is a no-op when its input equals the current state (the object
\* is unchanged and nothing is returned), Idle-to-Pressed returns nothing, and
\* a call that repeats the previous call's boolean returns nothing.
C2_SameInputIsNoOp ==
  \A i \in 1..Len(calls) :
    /\ (Fed(i) = calls[i].pre.is_pressed)
         => (calls[i].post = calls[i].pre /\ calls[i].ret = None)
    /\ (Fed(i) /\ ~calls[i].pre.is_pressed) => calls[i].ret = None
    /\ (i > 1 /\ Fed(i) = FedBefore(i)) => calls[i].ret = None

\* true, true, false, false has been fed, the clock moving between the two
\* calls that fed true.
C2_Witness ==
  /\ Len(calls) = 4
  /\ Fed(1) /\ Fed(2) /\ ~Fed(3) /\ ~Fed(4)
  /\ calls[1].at < calls[2].at
  /\ calls[3].ret # None

HandOf(off) ==
  [l \in 0..20 |->
     IF \E i \in 1..5 : FINGER_TIPS[i] = l
       THEN 50 + off[CHOOSE i \in 1..5 : FINGER_TIPS[i] = l]
       ELSE 50]

\* The hands the inference returns here: all fingers curled, only the thumb
\* curled, every tip exactly 0.02 below its knuckle, all fingers straight.
Hands ==
  { HandOf(<<5, 5, 5, 5, 5>>), HandOf(<<5, -5, -5, -5, -5>>),
    HandOf(<<2, 2, 2, 2, 2>>), HandOf(<<-5, -5, -5, -5, -5>>) }

\* What detect_for_video may return: no hand, or up to num_hands hands.
Results ==
  {<<>>} \cup {<<h>> : h \in Hands}

\* A strategy that counts a tip exactly 0.02 below its knuckle as pressed.
HeuristicFingerDetector_detect_Ge(landmarks) ==
  [i \in 1..5 |->
     LET tip_y == landmarks[FINGER_TIPS[i]]
         mcp_y == landmarks[FINGER_MCP[i]]
     IN  tip_y >= (mcp_y + PressOffset)]

\* HeuristicFingerDetector.detect(landmarks, frame_shape)
HeuristicFingerDetector_detect(landmarks) ==
  [i \in 1..5 |->
     LET tip_y == landmarks[FINGER_TIPS[i]]
         mcp_y == landmarks[FINGER_MCP[i]]
     IN  tip_y > (mcp_y + PressOffset)]

\* How far below its knuckle a fingertip of the hands under test lies, in
\* hundredths: above it, level with it, exactly 0.02 below, 0.03 below.
TipOffsets == {-5, 0, 2, 3}

\* Where the five knuckles of the hands under test lie: in one row, or each
\* at a height of its own.
KnuckleRows == { [i \in 1..5 |-> 50], [i \in 1..5 |-> 20 + 10 * i] }

\* A hand's 21 landmarks by their y: knuckle i at mcp[i], fingertip i at
\* mcp[i] + off[i], every other landmark at the bottom edge of the frame.
LandmarksOf(mcp, off) ==
  [l \in 0..20 |->
     IF \E i \in 1..5 : FINGER_TIPS[i] = l
       THEN LET i == CHOOSE i \in 1..5 : FINGER_TIPS[i] = l IN mcp[i] + off[i]
     ELSE IF \E i \in 1..5 : FINGER_MCP[i] = l
       THEN mcp[CHOOSE i \in 1..5 : FINGER_MCP[i] = l]
     ELSE 100]

\* The hands detect is tried on.
DetectHands ==
  { LandmarksOf(mcp, off) : mcp \in KnuckleRows, off \in [1..5 -> TipOffsets] }

\* self.detector.detect(hand_lms, frame.shape), called on the hand again.
Detect ==
  /\ hand_lms # <<>>
  /\ Len(detect_rets) < MaxDetects
  /\ detect_rets' = Append(detect_rets, HeuristicFingerDetector_detect(hand_lms))
  /\ UNCHANGED hand_lms
  /\ UNCHANGED <<now, fingerVars, procVars, camVars, writerVars, telVars, srcVars, mainVars>>

\* int(time.time() * 1000): the reading cut down to whole milliseconds.
TimestampMs(t) == t \div TicksPerMs

\* main's loop hands the next frame to processor.process(frame).
Process_call ==
  /\ hp_pc = "idle"
  /\ Len(ts_log) < MaxFrames
  /\ hp_pc' = "infer"
  /\ UNCHANGED <<mainVars, srcVars, telVars, detectVars, camVars, writerVars, now, fingerVars, finger_states, logger, timestamp_ms, result,
                 hand_i, pressed_states, finger_i, events, ts_log, returned>>
  /\ pre_states' = finger_states
  /\ detect_calls' = 0
  /\ updates' = <<>>

\* timestamp_ms = int(time.time() * 1000); detect_for_video(mp_image,
\* timestamp_ms); events = []; then into the loop over the hands, if any.
Process_infer ==
  /\ hp_pc = "infer"
  /\ timestamp_ms' = TimestampMs(now)
  /\ ts_log' = Append(ts_log, TimestampMs(now))
  /\ \E r \in Results : result' = r
  /\ events' = <<>>
  /\ hand_i' = 1
  /\ hp_pc' = "hands"
  /\ UNCHANGED <<mainVars, srcVars, telVars, detectVars, camVars, writerVars, now, fingerVars, finger_states, logger, pressed_states,
                 finger_i, returned>>
  /\ UNCHANGED <<pre_states, detect_calls, updates>>

\* A process that takes a frame without a hand for a hand with every finger
\* up, and puts the five fingers through update(False).
Process_hand_Decay ==
  /\ hp_pc = "hands"
  /\ IF hand_i <= Len(result)
       THEN /\ pressed_states' = HeuristicFingerDetector_detect(result[hand_i])
            /\ detect_calls' = detect_calls + 1
            /\ hp_pc' = "log"
            /\ UNCHANGED finger_i
       ELSE IF result = <<>> /\ hand_i = 1
         THEN /\ pressed_states' = [i \in 1..Len(FINGER_NAMES) |-> FALSE]
              /\ finger_i' = 1
              /\ hp_pc' = "update"
              /\ UNCHANGED detect_calls
         ELSE /\ hp_pc' = "return"
              /\ UNCHANGED <<pressed_states, detect_calls, finger_i>>
  /\ UNCHANGED <<mainVars, srcVars, telVars, detectVars, camVars, writerVars, now, fingerVars, finger_states, logger,
                 timestamp_ms, result, hand_i, events, ts_log, returned>>
  /\ UNCHANGED <<pre_states, updates>>

\* for hand_lms in result.hand_landmarks: the skeleton is drawn and the
\* strategy asked; with no hand (left) the loop is over.
Process_hand ==
  /\ hp_pc = "hands"
  /\ IF hand_i <= Len(result)
       THEN /\ pressed_states' = HeuristicFingerDetector_detect(result[hand_i])
            /\ detect_calls' = detect_calls + 1
            /\ hp_pc' = "log"
       ELSE /\ hp_pc' = "return"
            /\ UNCHANGED <<pressed_states, detect_calls>>
  /\ UNCHANGED <<mainVars, srcVars, telVars, detectVars, camVars, writerVars, now, fingerVars, finger_states, logger, timestamp_ms, result,
                 hand_i, finger_i, events, ts_log, returned>>
  /\ UNCHANGED <<pre_states, updates>>

\* if self.logger: self.logger.log(...). The row is written, or the write
\* raises and the exception leaves process (nothing in process catches it).
Process_log ==
  /\ hp_pc = "log"
  /\ \/ /\ hp_pc' = "update"
        /\ finger_i' = 1
     \/ /\ logger
        /\ hp_pc' = "raised"
        /\ UNCHANGED finger_i
  /\ UNCHANGED <<mainVars, srcVars, telVars, detectVars, camVars, writerVars, now, fingerVars, finger_states, logger, timestamp_ms, result,
                 hand_i, pressed_states, events, ts_log, returned>>
  /\ UNCHANGED <<pre_states, detect_calls, updates>>

\* One round of the loop over pressed_states: the finger's update, its event
\* (if any) appended; after the last finger, on to the next hand.
Process_update ==
  /\ hp_pc = "update"
  /\ IF finger_i <= Len(pressed_states)
       THEN LET r == FingerState_update(finger_states[finger_i],
                                        pressed_states[finger_i], now)
            IN  /\ finger_states' = [finger_states EXCEPT ![finger_i] = r.self]
                /\ events' = events \o r.event
                /\ finger_i' = finger_i + 1
                /\ updates' = Append(updates,
                                     [finger |-> finger_states[finger_i].name,
                                      is_pressed_now |-> pressed_states[finger_i],
                                      event |-> r.event])
                /\ UNCHANGED <<hp_pc, hand_i>>
       ELSE /\ hand_i' = hand_i + 1
            /\ hp_pc' = "hands"
            /\ UNCHANGED <<finger_states, events, finger_i, updates>>
  /\ UNCHANGED <<mainVars, srcVars, telVars, detectVars, camVars, writerVars, now, fingerVars, logger, timestamp_ms, result, pressed_states,
                 ts_log, returned>>
  /\ UNCHANGED <<pre_states, detect_calls>>

\* return frame, events
Process_return ==
  /\ hp_pc = "return"
  /\ returned' = Append(returned, events)
  /\ hp_pc' = "idle"
  /\ UNCHANGED <<mainVars, srcVars, telVars, detectVars, camVars, writerVars, now, fingerVars, finger_states, logger, timestamp_ms, result,
                 hand_i, pressed_states, finger_i, events, ts_log>>
  /\ UNCHANGED <<pre_states, detect_calls, updates>>

InitProc ==
  /\ now = 1
  /\ fs = FingerState(FINGER_NAMES[1])
  /\ calls = <<>>
  /\ logger \in BOOLEAN
  /\ InitProcVars
  /\ InitCamVars
  /\ InitWriterVars({"main"})
  /\ InitDetectVars
  /\ InitTelVars
  /\ InitSrcVars
  /\ InitMainVars

NextProc ==
  \/ Tick
  \/ Process_call
  \/ Process_infer
  \/ Process_hand
  \/ Process_log
  \/ Process_update
  \/ Process_return

SpecProc == InitProc /\ [][NextProc]_vars

\* C4: process hands detect_for_video a strictly greater millisecond
\* timestamp on every call than on the call before.
C4_TimestampsStrictlyIncrease ==
  \A i \in 2..Len(ts_log) : ts_log[i - 1] < ts_log[i]

\* C14: a process call whose inference found no hand calls neither the
\* strategy nor any update, leaves the five FingerStates as it found them
\* (a pressed finger stays pressed) and returns no event.
C14_NoHandNoChange ==
  (result = <<>> /\ (hp_pc = "return" \/ (hp_pc = "idle" /\ returned # <<>>)))
    => /\ detect_calls = 0
       /\ updates = <<>>
       /\ finger_states = pre_states
       /\ events = <<>>
       /\ hp_pc = "idle" => returned[Len(returned)] = <<>>

\* A frame without a hand has been processed, after an earlier frame and
\* later than the press of a finger that is still pressed.
C14_Witness ==
  /\ result = <<>>
  /\ hp_pc = "idle"
  /\ Len(returned) >= 2
  /\ \E i \in 1..Len(FINGER_NAMES) :
       /\ finger_states[i].is_pressed
       /\ finger_states[i].press_start_time < now

\* The events of a sequence of update calls, in the order of the calls.
RECURSIVE EventsOf(_)
EventsOf(us) ==
  IF us = <<>> THEN <<>> ELSE us[1].event \o EventsOf(Tail(us))

\* The process call under way, or the last one, has ended: by its return
\* statement (reached or done) or by an exception.
CallOver ==
  \/ hp_pc = "return"
  \/ hp_pc = "idle" /\ returned # <<>>
  \/ hp_pc = "raised"

\* C15: a process call whose inference found one hand calls the strategy
\* once, then update once per finger from Thumb to Pinky, each with its own
\* finger's boolean, and returns the events of these updates in that order;
\* each FingerState is what its own update made of it.
C15_OneDetectThenFiveUpdates ==
  (Len(result) = 1 /\ CallOver)
    => /\ detect_calls = 1
       /\ pressed_states = HeuristicFingerDetector_detect(result[1])
       /\ Len(updates) = Len(FINGER_NAMES)
       /\ \A i \in 1..Len(updates) :
            /\ updates[i].finger = FINGER_NAMES[i]
            /\ updates[i].is_pressed_now = pressed_states[i]
            /\ finger_states[i].is_pressed = pressed_states[i]
            /\ (pre_states[i].is_pressed = pressed_states[i])
                 => finger_states[i] = pre_states[i]
       /\ events = EventsOf(updates)
       /\ hp_pc = "idle" => returned[Len(returned)] = events

\* C16: a LandmarkLogger.log that fails does not abort the frame: no
\* process call ends with an exception that reaches the main loop.
C16_LogFailureDoesNotAbort ==
  hp_pc # "raised"

\* A strategy object and one hand of landmarks; the clock runs meanwhile.
InitDetect ==
  /\ now = 1
  /\ fs = FingerState(FINGER_NAMES[1])
  /\ calls = <<>>
  /\ logger = FALSE
  /\ InitProcVars
  /\ InitCamVars
  /\ InitWriterVars({"main"})
  /\ InitTelVars
  /\ InitSrcVars
  /\ InitMainVars
  /\ hand_lms \in DetectHands
  /\ detect_rets = <<>>

NextDetect ==
  \/ Tick
  \/ Detect

SpecDetect == InitDetect /\ [][NextDetect]_vars

\* C17: detect returns five booleans, finger i pressed exactly when the y of
\* its tip (landmarks 4, 8, 12, 16, 20) is greater than the y of its knuckle
\* (landmarks 2, 5, 9, 13, 17) plus 0.02: every finger when every tip is
\* more than 0.02 below its knuckle, none when no tip is below its knuckle,
\* and not a finger whose tip is exactly 0.02 below; a second call on the
\* same landmarks returns the same.
C17_HeuristicDetect ==
  \A k \in 1..Len(detect_rets) :
    LET pressed == detect_rets[k]
        tip(i) == hand_lms[<<4, 8, 12, 16, 20>>[i]]
        mcp(i) == hand_lms[<<2, 5, 9, 13, 17>>[i]]
    IN  /\ DOMAIN pressed = 1..5
        /\ \A i \in 1..5 : pressed[i] = (tip(i) > mcp(i) + 2)
        /\ (\A i \in 1..5 : tip(i) - mcp(i) > 2) => (\A i \in 1..5 : pressed[i])
        /\ (\A i \in 1..5 : tip(i) <= mcp(i)) => (\A i \in 1..5 : ~pressed[i])
        /\ \A i \in 1..5 : (tip(i) - mcp(i) = 2) => ~pressed[i]
        /\ pressed = detect_rets[1]

\* detect was called twice, at two clock readings, on a hand with the
\* knuckles at different heights, one finger pressed, one exactly 0.02
\* below its knuckle and one above it.
C17_Witness ==
  /\ Len(detect_rets) = 2
  /\ now > 1
  /\ hand_lms[5] # hand_lms[9]
  /\ \E i, j, k \in 1..5 :
       /\ detect_rets[2][i]
       /\ hand_lms[FINGER_TIPS[j]] = hand_lms[FINGER_MCP[j]] + 2
       /\ hand_lms[FINGER_TIPS[k]] < hand_lms[FINGER_MCP[k]]

\* -------------------------------------------------------- LiveCameraSource
\* cam_log with the steps es added, cut to its first MaxCamLog entries.
Logged(es) == SubSeq(cam_log \o es, 1,
                     IF Len(cam_log) + Len(es) <= MaxCamLog
                       THEN Len(cam_log) + Len(es) ELSE MaxCamLog)

\* What opening the device can come to: an opened handle, a handle that is
\* not opened, or an exception out of cv2.
OpenOutcomes == {"opened", "open_failed", "open_raised"}

\* The generator is running (the consumer waits for the next entry): at the
\* top of the loop, before the second if, or in time.sleep(1).
CamRunning == cam_pc \in {"top", "check", "sleep"}

\* The consumer asks for the next entry: the generator starts, or goes on
\* from the yield it stopped at (line 47 continue, or line 53 sleep).
Cam_next ==
  /\ cam_pc \in {"start", "yield_frame", "yield_none"}
  /\ cam_pc' = IF cam_pc = "yield_none" THEN "sleep" ELSE "top"
  /\ UNCHANGED <<cap, cam_fps, frame_idx, cam_log>>
  /\ UNCHANGED <<now, fingerVars, procVars, writerVars, detectVars, telVars, srcVars, mainVars>>

\* Lines 38-40, with _connect (lines 12-32): with no opened handle the device
\* is opened; a handle that is not opened, or an exception, leaves cap None.
Cam_connect ==
  /\ cam_pc = "top"
  /\ IF cap = "None"
       THEN \E o \in OpenOutcomes :
              /\ cap' = IF o = "opened" THEN "Opened" ELSE "None"
              /\ cam_fps' = IF o = "opened" THEN "Set" ELSE cam_fps
              /\ cam_log' = Logged(<<o>>)
       ELSE UNCHANGED <<cap, cam_fps, cam_log>>
  /\ cam_pc' = "check"
  /\ UNCHANGED frame_idx
  /\ UNCHANGED <<now, fingerVars, procVars, writerVars, detectVars, telVars, srcVars, mainVars>>

\* Lines 42-52 with an opened handle: a read that succeeds yields the frame,
\* a read that fails releases the handle and yields None.
Cam_read ==
  /\ cam_pc = "check"
  /\ cap = "Opened"
  /\ \/ /\ frame_idx < MaxCamFrames
        /\ frame_idx' = frame_idx + 1
        /\ cam_log' = Logged(<<"yield_frame">>)
        /\ cam_pc' = "yield_frame"
        /\ UNCHANGED cap
     \/ /\ cap' = "None"
        /\ cam_log' = Logged(<<"read_failed", "yield_none">>)
        /\ cam_pc' = "yield_none"
        /\ UNCHANGED frame_idx
  /\ UNCHANGED cam_fps
  /\ UNCHANGED <<now, fingerVars, procVars, writerVars, detectVars, telVars, srcVars, mainVars>>

\* Line 42 with no handle: the if is skipped and the while loop goes round.
Cam_loop ==
  /\ cam_pc = "check"
  /\ cap = "None"
  /\ cam_pc' = "top"
  /\ UNCHANGED <<cap, cam_fps, frame_idx, cam_log>>
  /\ UNCHANGED <<now, fingerVars, procVars, writerVars, detectVars, telVars, srcVars, mainVars>>

\* Line 53: time.sleep(1), then round the loop.
Cam_sleep ==
  /\ cam_pc = "sleep"
  /\ cam_log' = Logged(<<"sleep">>)
  /\ cam_pc' = "top"
  /\ UNCHANGED <<cap, cam_fps, frame_idx>>
  /\ UNCHANGED <<now, fingerVars, procVars, writerVars, detectVars, telVars, srcVars, mainVars>>

InitCamera ==
  /\ now = 1
  /\ fs = FingerState(FINGER_NAMES[1])
  /\ calls = <<>>
  /\ logger = FALSE
  /\ InitProcVars
  /\ InitCamVars
  /\ InitWriterVars({"main"})
  /\ InitDetectVars
  /\ InitTelVars
  /\ InitSrcVars
  /\ InitMainVars

NextCamera ==
  \/ Cam_next
  \/ Cam_connect
  \/ Cam_read
  \/ Cam_loop
  \/ Cam_sleep

SpecCamera == InitCamera /\ [][NextCamera]_vars

\* The generator's own steps always go on (its thread is never starved); the
\* consumer is free to stop asking.
FairSpecCamera ==
  /\ SpecCamera
  /\ WF_vars(Cam_connect)
  /\ WF_vars(Cam_read)
  /\ WF_vars(Cam_loop)
  /\ WF_vars(Cam_sleep)

\* ----------------------------------------------- LiveCameraSource: properties
IsOpenAttempt(e) == e \in OpenOutcomes
OpenAttempts == SelectSeq(cam_log, IsOpenAttempt)
Positions(e) == {i \in 1..Len(cam_log) : cam_log[i] = e}
FirstFrameAt == CHOOSE i \in Positions("yield_frame") :
                  \A k \in Positions("yield_frame") : i <= k

\* The device failed to open twice, opened at the third attempt, no read
\* failed since, and the first real frame has been yielded.
FailTwiceThenOpen ==
  /\ Len(OpenAttempts) >= 3
  /\ OpenAttempts[1] # "opened"
  /\ OpenAttempts[2] # "opened"
  /\ OpenAttempts[3] = "opened"
  /\ Positions("yield_frame") # {}
  /\ \A i \in Positions("read_failed") : i > FirstFrameAt

\* C5: with a device that fails to open twice and then opens and reads,
\* frames() yields exactly two None entries before the first real frame.
C5_TwoNoneBeforeFirstFrame ==
  FailTwiceThenOpen =>
    Cardinality({i \in Positions("yield_none") : i < FirstFrameAt}) = 2

\* C6: between any two consecutive attempts to open the device, frames() has
\* slept its backoff.
C6_BackoffBetweenOpenAttempts ==
  \A i, j \in 1..Len(cam_log) :
    (/\ i < j
     /\ IsOpenAttempt(cam_log[i])
     /\ IsOpenAttempt(cam_log[j])
     /\ \A k \in (i + 1)..(j - 1) : ~IsOpenAttempt(cam_log[k]))
      => \E k \in (i + 1)..(j - 1) : cam_log[k] = "sleep"

\* C7: every request for the next entry eventually returns an entry.
C7_NextEventuallyReturns ==
  CamRunning ~> ~CamRunning

\* -------------------------------------------------------------- AsyncWriter
\* The decimal digits of n, most significant first.
RECURSIVE Digits(_)
Digits(n) == IF n < 10 THEN <<n>> ELSE Digits(n \div 10) \o <<n % 10>>

\* ds filled with zeros on the left up to width w (never cut).
RECURSIVE ZeroPad(_, _)
ZeroPad(ds, w) == IF Len(ds) >= w THEN ds ELSE ZeroPad(<<0>> \o ds, w)

\* f"frame_{n:05d}.jpg"
AutoName(n) == <<"frame_">> \o ZeroPad(Digits(n), NameWidth) \o <<".jpg">>

\* The filename arguments a caller passes: None, or a name of its own.
FilenameArgs == {None, <<"shot.jpg">>}

\* A _worker loop that ends as soon as stopped is set, leaving the queue.
WorkerGoesOn_NoDrain(is_stopped, q) == ~is_stopped

\* The condition of _worker's loop: not self.stopped or not self.queue.empty()
WorkerGoesOn(is_stopped, q) == ~is_stopped \/ q # <<>>

\* A worker that a raising cv2.imwrite takes down (no except Exception).
AfterWriteError_Exit == "exited"

\* Lines 46-47, except Exception: the error is printed and the loop goes on.
AfterWriteError == "loop"

\* A queue that hands out its newest entry first.
QueueGet_Lifo(q) == [item |-> q[Len(q)], rest |-> SubSeq(q, 1, Len(q) - 1)]

\* queue.get() on a non-empty queue.Queue: the oldest entry leaves the queue.
QueueGet(q) == [item |-> Head(q), rest |-> Tail(q)]

\* The array the pipeline hands to write as its k-th frame, and what it
\* shows: image k, the FPS text not yet drawn on it.
Frame(k) == <<"frame", k>>
Image(k) == [img |-> k, overlay |-> FALSE]

\* The number of the frame an array is, or is a copy of.
FrameNo(a) == a[2]

\* No copy: the task holds the caller's own array.
ArrayCopy_Alias(a) == a

\* frame.copy(): a new array, which starts with the content of the first.
ArrayCopy(a) == <<"copy", FrameNo(a)>>

\* queue.Queue() has no maxsize: put never finds the queue full.
QueueFull(q) == FALSE

\* A thread calls write(frame, filename): frame number n_writes + 1 of the
\* pipeline, with or without a filename.
Write_call(t) ==
  /\ t_pc[t] = "idle"
  /\ n_writes < MaxWrites
  /\ n_writes' = n_writes + 1
  /\ t_frame' = [t_frame EXCEPT ![t] = Frame(n_writes + 1)]
  /\ pixels' = (Frame(n_writes + 1) :> Image(n_writes + 1)) @@ pixels
  /\ at_write' = ((n_writes + 1) :> Image(n_writes + 1)) @@ at_write
  /\ \E fn \in FilenameArgs : t_filename' = [t_filename EXCEPT ![t] = fn]
  /\ t_pc' = [t_pc EXCEPT ![t] = "check"]
  /\ UNCHANGED <<threads, queue, unfinished, stopped, frame_count, w_pc, item,
                 files, t_count, stop_state, enq_log, write_log, failed,
                 before_stop, img_log>>
  /\ UNCHANGED <<now, fingerVars, procVars, camVars, detectVars, telVars, srcVars, mainVars>>

\* A write that goes on whether the writer was stopped or not.
WriteRefused_Never(is_stopped) == FALSE

\* Lines 24-25: if self.stopped: return
WriteRefused(is_stopped) == is_stopped

\* Lines 24-27: return if stopped (the call's locals are gone); else name
\* the frame if it has no name.
Write_check(t) ==
  /\ t_pc[t] = "check"
  /\ t_pc' = [t_pc EXCEPT ![t] = IF WriteRefused(stopped) THEN "idle"
                                 ELSE IF t_filename[t] = None THEN "name"
                                 ELSE "put"]
  /\ t_frame' = IF WriteRefused(stopped) THEN [t_frame EXCEPT ![t] = None]
                ELSE t_frame
  /\ t_filename' = IF WriteRefused(stopped) THEN [t_filename EXCEPT ![t] = <<>>]
                   ELSE t_filename
  /\ UNCHANGED <<threads, queue, unfinished, stopped, frame_count, w_pc, item,
                 files, t_count, n_writes, stop_state, enq_log, write_log,
                 failed, before_stop>>
  /\ UNCHANGED <<pixels, at_write, img_log>>
  /\ UNCHANGED <<now, fingerVars, procVars, camVars, detectVars, telVars, srcVars, mainVars>>

\* Line 28: filename = f"frame_{self.frame_count:05d}.jpg"
Write_name(t) ==
  /\ t_pc[t] = "name"
  /\ t_filename' = [t_filename EXCEPT ![t] = AutoName(frame_count)]
  /\ t_pc' = [t_pc EXCEPT ![t] = "load"]
  /\ UNCHANGED <<threads, queue, unfinished, stopped, frame_count, w_pc, item,
                 files, t_frame, t_count, n_writes, stop_state, enq_log,
                 write_log, failed, before_stop>>
  /\ UNCHANGED <<pixels, at_write, img_log>>
  /\ UNCHANGED <<now, fingerVars, procVars, camVars, detectVars, telVars, srcVars, mainVars>>

\* Line 29, self.frame_count += 1, first half: the counter is read.
Write_load(t) ==
  /\ t_pc[t] = "load"
  /\ t_count' = [t_count EXCEPT ![t] = frame_count]
  /\ t_pc' = [t_pc EXCEPT ![t] = "store"]
  /\ UNCHANGED <<threads, queue, unfinished, stopped, frame_count, w_pc, item,
                 files, t_frame, t_filename, n_writes, stop_state, enq_log,
                 write_log, failed, before_stop>>
  /\ UNCHANGED <<pixels, at_write, img_log>>
  /\ UNCHANGED <<now, fingerVars, procVars, camVars, detectVars, telVars, srcVars, mainVars>>

\* Line 29, second half: the value read, plus one, is stored.
Write_store(t) ==
  /\ t_pc[t] = "store"
  /\ frame_count' = t_count[t] + 1
  /\ t_pc' = [t_pc EXCEPT ![t] = "put"]
  /\ UNCHANGED <<threads, queue, unfinished, stopped, w_pc, item, files,
                 t_frame, t_filename, t_count, n_writes, stop_state, enq_log,
                 write_log, failed, before_stop>>
  /\ UNCHANGED <<pixels, at_write, img_log>>
  /\ UNCHANGED <<now, fingerVars, procVars, camVars, detectVars, telVars, srcVars, mainVars>>

\* Line 31: self.queue.put((frame.copy(), filename)), and write returns,
\* its locals gone.
Write_put(t) ==
  /\ t_pc[t] = "put"
  /\ ~QueueFull(queue)
  /\ LET copy == ArrayCopy(t_frame[t])
         task == [frame |-> copy, filename |-> t_filename[t]] IN
       /\ pixels' = (copy :> pixels[t_frame[t]]) @@ pixels
       /\ queue' = Append(queue, task)
       /\ enq_log' = Append(enq_log, task)
  /\ unfinished' = unfinished + 1
  /\ t_pc' = [t_pc EXCEPT ![t] = "idle"]
  /\ t_frame' = [t_frame EXCEPT ![t] = None]
  /\ t_filename' = [t_filename EXCEPT ![t] = <<>>]
  /\ t_count' = [t_count EXCEPT ![t] = 0]
  /\ UNCHANGED <<threads, stopped, frame_count, w_pc, item, files, n_writes,
                 stop_state, write_log, failed, before_stop>>
  /\ UNCHANGED <<at_write, img_log>>
  /\ UNCHANGED <<now, fingerVars, procVars, camVars, detectVars, telVars, srcVars, mainVars>>

\* Line 34: while not self.stopped or not self.queue.empty()
W_loop ==
  /\ w_pc = "loop"
  /\ w_pc' = IF WorkerGoesOn(stopped, queue) THEN "get" ELSE "exited"
  /\ UNCHANGED <<threads, queue, unfinished, stopped, frame_count, item, files,
                 t_pc, t_frame, t_filename, t_count, n_writes, stop_state,
                 enq_log, write_log, failed, before_stop>>
  /\ UNCHANGED <<pixels, at_write, img_log>>
  /\ UNCHANGED <<now, fingerVars, procVars, camVars, detectVars, telVars, srcVars, mainVars>>

\* A worker that takes a task only while the camera is connected.
W_get_CameraUp ==
  /\ cap = "Opened"
  /\ w_pc = "get"
  /\ queue # <<>>
  /\ item' = QueueGet(queue).item
  /\ queue' = QueueGet(queue).rest
  /\ w_pc' = "imwrite"
  /\ UNCHANGED <<threads, unfinished, stopped, frame_count, files, t_pc,
                 t_frame, t_filename, t_count, n_writes, stop_state, enq_log,
                 write_log, failed, before_stop>>
  /\ UNCHANGED <<pixels, at_write, img_log>>
  /\ UNCHANGED <<now, fingerVars, procVars, camVars, detectVars, telVars, srcVars, mainVars>>

\* Lines 37-38: item = self.queue.get(timeout=0.1) finds a task.
W_get ==
  /\ w_pc = "get"
  /\ queue # <<>>
  /\ item' = QueueGet(queue).item
  /\ queue' = QueueGet(queue).rest
  /\ w_pc' = "imwrite"
  /\ UNCHANGED <<threads, unfinished, stopped, frame_count, files, t_pc,
                 t_frame, t_filename, t_count, n_writes, stop_state, enq_log,
                 write_log, failed, before_stop>>
  /\ UNCHANGED <<pixels, at_write, img_log>>
  /\ UNCHANGED <<now, fingerVars, procVars, camVars, detectVars, telVars, srcVars, mainVars>>

\* Lines 37, 44-45: the get times out on an empty queue (queue.Empty): continue.
W_timeout ==
  /\ w_pc = "get"
  /\ queue = <<>>
  /\ w_pc' = "loop"
  /\ UNCHANGED <<threads, queue, unfinished, stopped, frame_count, item, files,
                 t_pc, t_frame, t_filename, t_count, n_writes, stop_state,
                 enq_log, write_log, failed, before_stop>>
  /\ UNCHANGED <<pixels, at_write, img_log>>
  /\ UNCHANGED <<now, fingerVars, procVars, camVars, detectVars, telVars, srcVars, mainVars>>

\* Lines 40-47: cv2.imwrite(path, frame) writes the file (replacing one of
\* the same name) and task_done follows; or it returns False, writing
\* nothing; or it raises, which is printed, task_done being skipped.
W_imwrite ==
  /\ w_pc = "imwrite"
  /\ write_log' = Append(write_log, item)
  /\ img_log' = Append(img_log, pixels[item.frame])
  /\ \/ /\ files' = {f \in files : f.filename # item.filename} \cup {item}
        /\ unfinished' = unfinished - 1
        /\ w_pc' = "loop"
        /\ UNCHANGED failed
     \/ /\ failed' = failed \cup {item}
        /\ unfinished' = unfinished - 1
        /\ w_pc' = "loop"
        /\ UNCHANGED files
     \/ /\ failed' = failed \cup {item}
        /\ w_pc' = AfterWriteError
        /\ UNCHANGED <<files, unfinished>>
  /\ UNCHANGED <<threads, queue, stopped, frame_count, item, t_pc, t_frame,
                 t_filename, t_count, n_writes, stop_state, enq_log,
                 before_stop>>
  /\ UNCHANGED <<pixels, at_write>>
  /\ UNCHANGED <<now, fingerVars, procVars, camVars, detectVars, telVars, srcVars, mainVars>>

\* Line 50: a thread calls stop(): self.stopped = True, then it joins.
Stop_call(t) ==
  /\ t_pc[t] = "idle"
  /\ stop_state = "no"
  /\ stopped' = TRUE
  /\ stop_state' = "called"
  /\ before_stop' = {enq_log[i] : i \in 1..Len(enq_log)}
  /\ t_pc' = [t_pc EXCEPT ![t] = "join"]
  /\ UNCHANGED <<threads, queue, unfinished, frame_count, w_pc, item, files,
                 t_frame, t_filename, t_count, n_writes, enq_log, write_log,
                 failed>>
  /\ UNCHANGED <<pixels, at_write, img_log>>
  /\ UNCHANGED <<now, fingerVars, procVars, camVars, detectVars, telVars, srcVars, mainVars>>

\* Lines 51-52: self.worker_thread.join() returns once the worker has left
\* its loop, and stop() returns.
Stop_join(t) ==
  /\ t_pc[t] = "join"
  /\ w_pc = "exited"
  /\ stop_state' = "returned"
  /\ t_pc' = [t_pc EXCEPT ![t] = "idle"]
  /\ UNCHANGED <<threads, queue, unfinished, stopped, frame_count, w_pc, item,
                 files, t_frame, t_filename, t_count, n_writes, enq_log,
                 write_log, failed, before_stop>>
  /\ UNCHANGED <<pixels, at_write, img_log>>
  /\ UNCHANGED <<now, fingerVars, procVars, camVars, detectVars, telVars, srcVars, mainVars>>

\* main.py line 122: once write has returned, the loop draws the FPS text on
\* the array it has just passed (cv2.putText works in place).
Main_putText(t) ==
  /\ t_pc[t] = "idle"
  /\ n_writes >= 1
  /\ \A u \in threads : t_frame[u] # Frame(n_writes)
  /\ ~pixels[Frame(n_writes)].overlay
  /\ pixels' = [pixels EXCEPT ![Frame(n_writes)].overlay = TRUE]
  /\ UNCHANGED <<threads, queue, unfinished, stopped, frame_count, w_pc, item,
                 files, t_pc, t_frame, t_filename, t_count, n_writes,
                 stop_state, enq_log, write_log, failed, before_stop,
                 at_write, img_log>>
  /\ UNCHANGED <<now, fingerVars, procVars, camVars, detectVars, telVars, srcVars, mainVars>>

\* One thread uses the writer, as main.py does.
InitWriter ==
  /\ now = 1
  /\ fs = FingerState(FINGER_NAMES[1])
  /\ calls = <<>>
  /\ logger = FALSE
  /\ InitProcVars
  /\ InitCamVars
  /\ InitWriterVars({"main"})
  /\ InitDetectVars
  /\ InitTelVars
  /\ InitSrcVars
  /\ InitMainVars

\* Two producer threads share the writer.
InitWriterMT ==
  /\ now = 1
  /\ fs = FingerState(FINGER_NAMES[1])
  /\ calls = <<>>
  /\ logger = FALSE
  /\ InitProcVars
  /\ InitCamVars
  /\ InitWriterVars({"t1", "t2"})
  /\ InitDetectVars
  /\ InitTelVars
  /\ InitSrcVars
  /\ InitMainVars

NextWriter ==
  \/ \E t \in threads : Write_call(t)
  \/ \E t \in threads : Write_check(t)
  \/ \E t \in threads : Write_name(t)
  \/ \E t \in threads : Write_load(t)
  \/ \E t \in threads : Write_store(t)
  \/ \E t \in threads : Write_put(t)
  \/ \E t \in threads : Stop_call(t)
  \/ \E t \in threads : Stop_join(t)
  \/ W_loop
  \/ W_get
  \/ W_timeout
  \/ W_imwrite

SpecWriterMT == InitWriterMT /\ [][NextWriter]_vars

\* No thread is starved: the worker's steps and the steps of a call under way
\* always go on. Whether write or stop is called at all is up to the caller.
WriterFairness ==
  /\ WF_vars(W_loop)
  /\ WF_vars(W_get)
  /\ WF_vars(W_timeout)
  /\ WF_vars(W_imwrite)
  /\ \A t \in {"main", "t1", "t2"} :
       /\ WF_vars(t \in threads /\ Write_check(t))
       /\ WF_vars(t \in threads /\ Write_name(t))
       /\ WF_vars(t \in threads /\ Write_load(t))
       /\ WF_vars(t \in threads /\ Write_store(t))
       /\ WF_vars(t \in threads /\ Write_put(t))
       /\ WF_vars(t \in threads /\ Stop_join(t))

SpecWriter == InitWriter /\ [][NextWriter]_vars /\ WriterFairness

\* The main loop as the writer's one producer: it passes a frame, then draws
\* on it.
NextWriterOverlay ==
  \/ NextWriter
  \/ \E t \in threads : Main_putText(t)

SpecWriterOverlay == InitWriter /\ [][NextWriterOverlay]_vars

\* ---------------------------------------------------- AsyncWriter: properties
\* The tasks put on the queue whose name write() generated: the callers'
\* own names are none of the generated ones.
IsAutoNamed(task) == task.filename \notin FilenameArgs
AutoNamed == SelectSeq(enq_log, IsAutoNamed)

\* C8: the k generated filenames are frame_00000.jpg ... frame_(k-1).jpg in
\* the order in which the tasks were put on the queue: no name twice, none
\* skipped.
C8_AutoNamesInEnqueueOrder ==
  \A i \in 1..Len(AutoNamed) : AutoNamed[i].filename = AutoName(i - 1)

\* C9: once stop() has returned the queue is empty, every task whose write()
\* returned before stop() was called has been handed to the disk write, and
\* N generated names with no failed write left exactly N files; and stop(),
\* once called, returns.
C9_Drained ==
  stop_state = "returned" =>
    /\ queue = <<>>
    /\ before_stop \subseteq {write_log[i] : i \in 1..Len(write_log)}
    /\ ((\A task \in before_stop : IsAutoNamed(task)) /\ failed = {})
         => Cardinality(files) = Cardinality(before_stop)

C9_StopDrainsAndReturns ==
  /\ []C9_Drained
  /\ (stop_state = "called") ~> (stop_state = "returned")

\* stop() returned after three writes with generated names, all on disk.
C9_Witness ==
  /\ stop_state = "returned"
  /\ Cardinality(before_stop) = 3
  /\ \A task \in before_stop : IsAutoNamed(task)
  /\ Cardinality(files) = 3

\* The task in the worker's hands, if any.
InHand == IF w_pc = "imwrite" THEN <<item>> ELSE <<>>

\* C10: the worker hands the tasks to the disk write in the order of their
\* puts, one at a time, each once: what was put is what was written, then
\* what the worker holds, then what still waits, in that order.
C10_WritesInEnqueueOrder ==
  /\ enq_log = write_log \o InHand \o queue
  /\ \A i, j \in 1..Len(write_log) : i # j => write_log[i] # write_log[j]

\* One task written while two more wait together in the queue.
C10_Witness ==
  /\ Len(write_log) >= 1
  /\ Len(queue) >= 2


\* C11: a disk write that fails neither ends the worker nor touches the
\* producers: the worker goes back to its loop, every task put on the queue
\* is still handed to the disk write, and stop() still drains and returns.
C11_WorkerSurvivesWriteError ==
  /\ [][(w_pc = "imwrite" /\ w_pc' # "imwrite")
          => (w_pc' = "loop" /\ t_pc' = t_pc /\ queue' = queue)]_vars
  /\ \A k \in 1..MaxWrites : (Len(enq_log) >= k) ~> (Len(write_log) >= k)
  /\ (stop_state = "called") ~> (stop_state = "returned" /\ queue = <<>>)

\* A write failed, a task put after it is on disk, and stop() has returned.
C11_Witness ==
  /\ stop_state = "returned"
  /\ \E i, j \in 1..Len(write_log) :
       /\ i < j
       /\ write_log[i] \in failed
       /\ write_log[j] \in files


\* C12: write never waits for the worker, and the task it puts holds an
\* array of its own: a put under way can always be done, no task shares its
\* array with the caller, and what cv2.imwrite is handed is what the
\* caller's array showed when write was called, whatever was drawn since.
C12_WriteCopiesAndNeverWaits ==
  /\ \A t \in threads : t_pc[t] = "put" => ENABLED Write_put(t)
  /\ \A i \in 1..Len(enq_log) : enq_log[i].frame # Frame(FrameNo(enq_log[i].frame))
  /\ \A i \in 1..Len(write_log) :
       img_log[i] = at_write[FrameNo(write_log[i].frame)]

\* A frame other than the first is on disk without the text, although the
\* caller has drawn the text on its own array.
C12_Witness ==
  \E i \in 1..Len(write_log) :
    /\ write_log[i] \in files
    /\ pixels[Frame(FrameNo(write_log[i].frame))].overlay
    /\ ~img_log[i].overlay
    /\ i >= 2


\* C13: once stop() has been called, a write() call returns without an
\* error, puts nothing on the queue and leaves the frame counter alone.
C13_WriteAfterStopIsNoOp ==
  /\ [][stop_state # "no"
          => (enq_log' = enq_log /\ Len(queue') <= Len(queue)
              /\ frame_count' = frame_count)]_vars
  /\ [][\A t \in threads :
          (stop_state # "no" /\ t_pc[t] = "check")
            => t_pc'[t] \in {"check", "idle"}]_vars
  /\ \A t \in {"main"} :
       (stop_state # "no" /\ t_pc[t] = "check") ~> (t_pc[t] = "idle")

\* stop() has returned and a write() called after it has returned as well,
\* one frame short on the queue's record, one generated name short.
C13_Witness ==
  /\ stop_state = "returned"
  /\ t_pc["main"] = "idle"
  /\ n_writes = Len(enq_log) + 1
  /\ frame_count < n_writes
  /\ \E i \in 1..Len(enq_log) : IsAutoNamed(enq_log[i])


\* -------------------------------------------------------------- SharedState
\* A round that cuts the third decimal off.
Round2_Trunc(x) == x \div 10

\* round(x, 2) of a number of thousandths x >= 0, in hundredths: the nearest
\* hundredth, the even one of two equally near.
Round2(x) ==
  LET q == x \div 10
      r == x % 10
  IN  IF r < 5 THEN q
      ELSE IF r > 5 THEN q + 1
      ELSE IF q % 2 = 0 THEN q ELSE q + 1

\* A lock that lets everyone in.
CanAcquire_NoLock(l) == TRUE

\* with self._lock: entered only while no one holds the lock.
CanAcquire(l) == l = "free"

\* The frame rates (in thousandths) and hand counts update is called with.
FpsValues == {1234, 1236}
HandCounts == {1, 2}

\* Line 14: the main loop calls update(fps, hands_detected).
U_call ==
  /\ u_pc = "idle"
  /\ Len(upd_log) < MaxUpdates
  /\ \E f \in FpsValues, h \in HandCounts :
       u_args' = [fps |-> f, hands_detected |-> h]
  /\ u_pc' = "acquire"
  /\ UNCHANGED <<lock, fps, hands_detected, status, state_start_time, s_pc,
                 snapshot, upd_log, released, s_released, snap_log>>
  /\ UNCHANGED <<now, fingerVars, procVars, camVars, writerVars, detectVars, srcVars, mainVars>>

\* Line 15: with self._lock, once the lock can be had.
U_acquire ==
  /\ u_pc = "acquire"
  /\ CanAcquire(lock)
  /\ lock' = "update"
  /\ upd_log' = Append(upd_log, u_args)
  /\ u_pc' = "fps"
  /\ UNCHANGED <<fps, hands_detected, status, state_start_time, u_args, s_pc,
                 snapshot, released, s_released, snap_log>>
  /\ UNCHANGED <<now, fingerVars, procVars, camVars, writerVars, detectVars, srcVars, mainVars>>

\* Line 16: self.fps = fps
U_fps ==
  /\ u_pc = "fps"
  /\ fps' = u_args.fps
  /\ u_pc' = "hands_detected"
  /\ UNCHANGED <<lock, hands_detected, status, state_start_time, u_args, s_pc,
                 snapshot, upd_log, released, s_released, snap_log>>
  /\ UNCHANGED <<now, fingerVars, procVars, camVars, writerVars, detectVars, srcVars, mainVars>>

\* Line 17: self.hands_detected = hands_detected
U_hands_detected ==
  /\ u_pc = "hands_detected"
  /\ hands_detected' = u_args.hands_detected
  /\ u_pc' = "status"
  /\ UNCHANGED <<lock, fps, status, state_start_time, u_args, s_pc, snapshot,
                 upd_log, released, s_released, snap_log>>
  /\ UNCHANGED <<now, fingerVars, procVars, camVars, writerVars, detectVars, srcVars, mainVars>>

\* Line 18: self.status = "running"
U_status ==
  /\ u_pc = "status"
  /\ status' = "running"
  /\ u_pc' = "release"
  /\ UNCHANGED <<lock, fps, hands_detected, state_start_time, u_args, s_pc,
                 snapshot, upd_log, released, s_released, snap_log>>
  /\ UNCHANGED <<now, fingerVars, procVars, camVars, writerVars, detectVars, srcVars, mainVars>>

\* The with block of update ends: the lock is released and update returns.
U_release ==
  /\ u_pc = "release"
  /\ lock' = "free"
  /\ released' = released + 1
  /\ u_pc' = "idle"
  /\ u_args' = [fps |-> 0, hands_detected |-> 0]
  /\ UNCHANGED <<fps, hands_detected, status, state_start_time, s_pc, snapshot,
                 upd_log, s_released, snap_log>>
  /\ UNCHANGED <<now, fingerVars, procVars, camVars, writerVars, detectVars, srcVars, mainVars>>

\* Line 20: the HTTP thread calls get_snapshot().
S_call ==
  /\ s_pc = "idle"
  /\ Len(snap_log) < MaxSnapshots
  /\ s_pc' = "acquire"
  /\ UNCHANGED <<lock, fps, hands_detected, status, state_start_time, u_pc,
                 u_args, snapshot, upd_log, released, s_released, snap_log>>
  /\ UNCHANGED <<now, fingerVars, procVars, camVars, writerVars, detectVars, srcVars, mainVars>>

\* Line 21: with self._lock, once the lock can be had.
S_acquire ==
  /\ s_pc = "acquire"
  /\ CanAcquire(lock)
  /\ lock' = "get_snapshot"
  /\ s_released' = released
  /\ s_pc' = "status"
  /\ UNCHANGED <<fps, hands_detected, status, state_start_time, u_pc, u_args,
                 snapshot, upd_log, released, snap_log>>
  /\ UNCHANGED <<now, fingerVars, procVars, camVars, writerVars, detectVars, srcVars, mainVars>>

\* A get_snapshot that hands out the status and sets it back.
S_status_Reset ==
  /\ s_pc = "status"
  /\ snapshot' = [snapshot EXCEPT !.status = status]
  /\ status' = "initializing"
  /\ s_pc' = "current_fps"
  /\ UNCHANGED <<lock, fps, hands_detected, state_start_time, u_pc,
                 u_args, upd_log, released, s_released, snap_log>>
  /\ UNCHANGED <<now, fingerVars, procVars, camVars, writerVars, detectVars, srcVars, mainVars>>

\* Line 23: "status": self.status
S_status ==
  /\ s_pc = "status"
  /\ snapshot' = [snapshot EXCEPT !.status = status]
  /\ s_pc' = "current_fps"
  /\ UNCHANGED <<lock, fps, hands_detected, status, state_start_time, u_pc,
                 u_args, upd_log, released, s_released, snap_log>>
  /\ UNCHANGED <<now, fingerVars, procVars, camVars, writerVars, detectVars, srcVars, mainVars>>

\* Line 24: "current_fps": round(self.fps, 2)
S_current_fps ==
  /\ s_pc = "current_fps"
  /\ snapshot' = [snapshot EXCEPT !.current_fps = Round2(fps)]
  /\ s_pc' = "hands_detected"
  /\ UNCHANGED <<lock, fps, hands_detected, status, state_start_time, u_pc,
                 u_args, upd_log, released, s_released, snap_log>>
  /\ UNCHANGED <<now, fingerVars, procVars, camVars, writerVars, detectVars, srcVars, mainVars>>

\* Line 25: "hands_detected": self.hands_detected
S_hands_detected ==
  /\ s_pc = "hands_detected"
  /\ snapshot' = [snapshot EXCEPT !.hands_detected = hands_detected]
  /\ s_pc' = "uptime_seconds"
  /\ UNCHANGED <<lock, fps, hands_detected, status, state_start_time, u_pc,
                 u_args, upd_log, released, s_released, snap_log>>
  /\ UNCHANGED <<now, fingerVars, procVars, camVars, writerVars, detectVars, srcVars, mainVars>>

\* Line 26: "uptime_seconds": round(time.time() - self.start_time, 2)
S_uptime_seconds ==
  /\ s_pc = "uptime_seconds"
  /\ snapshot' = [snapshot EXCEPT !.uptime_seconds =
                    Round2((now - state_start_time) \div TicksPerMs)]
  /\ s_pc' = "return"
  /\ UNCHANGED <<lock, fps, hands_detected, status, state_start_time, u_pc,
                 u_args, upd_log, released, s_released, snap_log>>
  /\ UNCHANGED <<now, fingerVars, procVars, camVars, writerVars, detectVars, srcVars, mainVars>>

\* The dict is returned and the with block of get_snapshot ends.
S_return ==
  /\ s_pc = "return"
  /\ snap_log' = Append(snap_log, [dict |-> snapshot, released |-> s_released])
  /\ lock' = "free"
  /\ snapshot' = NoSnapshot
  /\ s_released' = 0
  /\ s_pc' = "idle"
  /\ UNCHANGED <<fps, hands_detected, status, state_start_time, u_pc, u_args,
                 upd_log, released>>
  /\ UNCHANGED <<now, fingerVars, procVars, camVars, writerVars, detectVars, srcVars, mainVars>>

\* state = SharedState(), then the main loop updates it while the HTTP
\* thread serves snapshots.
InitTelemetry ==
  /\ now = 1
  /\ fs = FingerState(FINGER_NAMES[1])
  /\ calls = <<>>
  /\ logger = FALSE
  /\ InitProcVars
  /\ InitCamVars
  /\ InitWriterVars({"main"})
  /\ InitDetectVars
  /\ InitTelVars
  /\ InitSrcVars
  /\ InitMainVars

NextTelemetry ==
  \/ Tick
  \/ U_call
  \/ U_acquire
  \/ U_fps
  \/ U_hands_detected
  \/ U_status
  \/ U_release
  \/ S_call
  \/ S_acquire
  \/ S_status
  \/ S_current_fps
  \/ S_hands_detected
  \/ S_uptime_seconds
  \/ S_return

SpecTelemetry == InitTelemetry /\ [][NextTelemetry]_vars


\* The status, frame rate and hand count of a snapshot are those of update
\* call u: "running", u's fps at its nearest hundredth, u's hand count.
ShowsUpdate(d, u) ==
  /\ d.status = "running"
  /\ 10 * d.current_fps - u.fps \in -5..5
  /\ d.hands_detected = u.hands_detected

\* The status, frame rate and hand count of a snapshot are the initial ones.
ShowsInitial(d) ==
  /\ d.status = "initializing"
  /\ d.current_fps = 0
  /\ d.hands_detected = 0

\* C18: a snapshot taken before any update reports "initializing"; one taken
\* after an update reports "running", the frame rate of the most recent
\* update rounded to two decimals and its hand count.
C18_SnapshotShowsLatestUpdate ==
  \A i \in 1..Len(snap_log) :
    IF snap_log[i].released = 0
      THEN ShowsInitial(snap_log[i].dict)
      ELSE ShowsUpdate(snap_log[i].dict, upd_log[snap_log[i].released])

\* One snapshot was taken before any update and one after two different
\* updates, the second with a frame rate that rounds upwards.
C18_Witness ==
  /\ Len(snap_log) = 2
  /\ snap_log[1].released = 0
  /\ snap_log[2].released = 2
  /\ upd_log[1].fps # upd_log[2].fps
  /\ upd_log[2].fps % 10 > 5
  /\ upd_log[1].hands_detected # upd_log[2].hands_detected

\* C19: with update and get_snapshot running at the same time, the status,
\* frame rate and hand count of every snapshot are the initial ones or those
\* of one single update call, never part of one and part of another.
C19_SnapshotNeverMixed ==
  \A i \in 1..Len(snap_log) :
    \/ ShowsInitial(snap_log[i].dict)
    \/ \E k \in 1..Len(upd_log) : ShowsUpdate(snap_log[i].dict, upd_log[k])

\* A get_snapshot call holds the lock, half of its values read, while an
\* update call with other values than the last one's waits for the lock.
C19_Witness ==
  /\ s_pc = "hands_detected"
  /\ lock = "get_snapshot"
  /\ snapshot.status = "running"
  /\ u_pc = "acquire"
  /\ upd_log # <<>>
  /\ upd_log[Len(upd_log)].fps # u_args.fps
  /\ upd_log[Len(upd_log)].hands_detected # u_args.hands_detected

\* C25: once a snapshot has reported "running" no later snapshot reports
\* "initializing"; the status itself never goes back from "running"; and no
\* step of get_snapshot changes status, fps, hands_detected or start_time.
C25_StatusMonotone ==
  /\ [](\A i, j \in 1..Len(snap_log) :
          (i < j /\ snap_log[i].dict.status = "running")
            => snap_log[j].dict.status = "running")
  /\ [][status = "running" => status' = "running"]_vars
  /\ [][(s_pc' # s_pc)
          => UNCHANGED <<fps, hands_detected, status, state_start_time>>]_vars

\* A snapshot reported "running", another update call came and went, and
\* the next snapshot reported "running" again.
C25_Witness ==
  /\ Len(snap_log) >= 2
  /\ snap_log[1].dict.status = "running"
  /\ snap_log[2].dict.status = "running"
  /\ snap_log[1].released < snap_log[2].released
  /\ status = "running"


\* ------------------------------------------- VideoFileSource, JpegFileSource
\* The sequences of booleans of a length up to n.
RECURSIVE BoolSeqs(_)
BoolSeqs(n) ==
  IF n = 0 THEN {<<>>}
  ELSE BoolSeqs(n - 1) \cup {Append(s, b) : s \in BoolSeqs(n - 1), b \in BOOLEAN}

\* yielded with entry e added to those of the frames() call under way.
Yield(e) == [yielded EXCEPT ![Len(yielded)] = Append(@, e)]

\* The consumer calls source.frames() and starts to iterate: for the first
\* time, or again once the iteration before has run to its end.
Frames_call ==
  /\ src_pc \in {"new", "done"}
  /\ Len(yielded) < MaxIterations
  /\ yielded' = Append(yielded, <<>>)
  /\ src_idx' = 0
  /\ src_pc' = "loop"
  /\ UNCHANGED <<src_kind, vcap, n_frames, image_files>>
  /\ UNCHANGED <<now, fingerVars, procVars, camVars, writerVars, detectVars,
                 telVars, mainVars>>

\* video_file.py line 10: while self.cap.isOpened()
Video_loop ==
  /\ src_kind = "video"
  /\ src_pc = "loop"
  /\ src_pc' = IF vcap.opened THEN "read" ELSE "release"
  /\ UNCHANGED <<src_kind, vcap, n_frames, image_files, src_idx, yielded>>
  /\ UNCHANGED <<now, fingerVars, procVars, camVars, writerVars, detectVars,
                 telVars, mainVars>>

\* Lines 11-15: ret, frame = self.cap.read(); at the end of the file ret is
\* False: break; else yield frame_idx, frame and frame_idx += 1.
Video_read ==
  /\ src_kind = "video"
  /\ src_pc = "read"
  /\ IF vcap.pos < n_frames
       THEN /\ yielded' = Yield(<<src_idx, <<"frame", vcap.pos>> >>)
            /\ vcap' = [vcap EXCEPT !.pos = @ + 1]
            /\ src_idx' = src_idx + 1
            /\ src_pc' = "loop"
       ELSE /\ src_pc' = "release"
            /\ UNCHANGED <<vcap, src_idx, yielded>>
  /\ UNCHANGED <<src_kind, n_frames, image_files>>
  /\ UNCHANGED <<now, fingerVars, procVars, camVars, writerVars, detectVars,
                 telVars, mainVars>>

\* Line 16: self.cap.release(), and the generator is exhausted.
Video_release ==
  /\ src_kind = "video"
  /\ src_pc = "release"
  /\ vcap' = [vcap EXCEPT !.opened = FALSE]
  /\ src_pc' = "done"
  /\ UNCHANGED <<src_kind, n_frames, image_files, src_idx, yielded>>
  /\ UNCHANGED <<now, fingerVars, procVars, camVars, writerVars, detectVars,
                 telVars, mainVars>>

\* jpeg_source.py lines 14-18: the next file of enumerate(self.image_files)
\* is read and yielded with its position, or skipped if cv2.imread returns
\* None; after the last file the generator is exhausted.
Jpeg_next ==
  /\ src_kind = "jpeg"
  /\ src_pc = "loop"
  /\ IF src_idx < Len(image_files)
       THEN /\ yielded' = IF image_files[src_idx + 1]
                            THEN Yield(<<src_idx, <<"image", src_idx>> >>)
                            ELSE yielded
            /\ src_idx' = src_idx + 1
            /\ UNCHANGED src_pc
       ELSE /\ src_pc' = "done"
            /\ UNCHANGED <<src_idx, yielded>>
  /\ UNCHANGED <<src_kind, vcap, n_frames, image_files>>
  /\ UNCHANGED <<now, fingerVars, procVars, camVars, writerVars, detectVars,
                 telVars, mainVars>>

\* A VideoFileSource on a file of some frames that cv2.VideoCapture could
\* open or not, or a JpegFileSource on a directory of some .jpg files, each
\* readable or not.
InitSources ==
  /\ now = 1
  /\ fs = FingerState(FINGER_NAMES[1])
  /\ calls = <<>>
  /\ logger = FALSE
  /\ InitProcVars
  /\ InitCamVars
  /\ InitWriterVars({"main"})
  /\ InitDetectVars
  /\ InitTelVars
  /\ InitMainVars
  /\ src_pc = "new"
  /\ src_idx = 0
  /\ yielded = <<>>
  /\ \/ /\ src_kind = "video"
        /\ n_frames \in 0..MaxVideoFrames
        /\ vcap \in {[opened |-> o, pos |-> 0] : o \in BOOLEAN}
        /\ image_files = <<>>
     \/ /\ src_kind = "jpeg"
        /\ image_files \in BoolSeqs(MaxImages)
        /\ n_frames = 0
        /\ vcap = [opened |-> FALSE, pos |-> 0]

NextSources ==
  \/ Frames_call
  \/ Video_loop
  \/ Video_read
  \/ Video_release
  \/ Jpeg_next

SpecSources == InitSources /\ [][NextSources]_vars

AbstractMembers == {"frames", "resolution", "fps"}

\* What each source class defines besides __init__.
ClassMembers(class) ==
  CASE class = "LiveCameraSource" -> {"_connect", "frames", "resolution", "fps"}
    [] class = "VideoFileSource"  -> {"frames", "get_resolution", "get_fps"}
    [] class = "JpegFileSource"   -> {"frames", "resolution", "fps"}

\* class X(VideoSource) with VideoSource(ABC): X(...) raises TypeError
\* unless X defines every abstract member.
Instantiable(class) == AbstractMembers \subseteq ClassMembers(class)

\* get_source(args): the class it constructs, or how it ends otherwise:
\* sys.exit(1) on a path that does not exist, an exception that nothing
\* catches (the TypeError of a class that cannot be instantiated, the
\* ValueError of int() on a camera index that is no number).
get_source(a) ==
  LET Construct(class) ==
        IF Instantiable(class) THEN [pc |-> "processor", source |-> class]
        ELSE [pc |-> "raised", source |-> "None"]
  IN  CASE a.input_type = "camera" ->
             IF a.path_ok THEN Construct("LiveCameraSource")
             ELSE [pc |-> "raised", source |-> "None"]
        [] a.input_type = "video" ->
             IF ~a.path_ok THEN [pc |-> "sys_exit", source |-> "None"]
             ELSE Construct("VideoFileSource")
        [] a.input_type = "jpeg" ->
             IF ~a.path_ok THEN [pc |-> "sys_exit", source |-> "None"]
             ELSE Construct("JpegFileSource")

\* main.py line 49: source = get_source(args)
Start_get_source ==
  /\ main_pc = "get_source"
  /\ main_pc' = get_source(args).pc
  /\ source' = get_source(args).source
  /\ UNCHANGED <<args, writer, main_entry, n_entries, n_processed, n_skipped,
                 cause, cut_writes>>
  /\ UNCHANGED <<now, fingerVars, procVars, camVars, writerVars, detectVars,
                 telVars, srcVars>>

\* Lines 54-59: processor = HandProcessor(...), or sys.exit(1) if the model
\* cannot be loaded.
Start_processor ==
  /\ main_pc = "processor"
  /\ main_pc' = IF args.model_ok THEN "writer" ELSE "sys_exit"
  /\ UNCHANGED <<args, source, writer, main_entry, n_entries, n_processed,
                 n_skipped, cause, cut_writes>>
  /\ UNCHANGED <<now, fingerVars, procVars, camVars, writerVars, detectVars,
                 telVars, srcVars>>

\* Lines 61-62: a writer unless the source is a JpegFileSource.
Start_writer ==
  /\ main_pc = "writer"
  /\ writer' = IF source # "JpegFileSource" THEN "AsyncWriter" ELSE "None"
  /\ main_pc' = "telemetry"
  /\ UNCHANGED <<args, source, main_entry, n_entries, n_processed, n_skipped,
                 cause, cut_writes>>
  /\ UNCHANGED <<now, fingerVars, procVars, camVars, writerVars, detectVars,
                 telVars, srcVars>>

\* Line 65: telemetry.start_server(port=5000); HTTPServer raises OSError if
\* the port is taken, which nothing catches. Then the loop begins.
Start_telemetry ==
  /\ main_pc = "telemetry"
  /\ main_pc' = IF args.port_ok THEN "next" ELSE "raised"
  /\ UNCHANGED <<args, source, writer, main_entry, n_entries, n_processed,
                 n_skipped, cause, cut_writes>>
  /\ UNCHANGED <<now, fingerVars, procVars, camVars, writerVars, detectVars,
                 telVars, srcVars>>

\* The command lines argparse lets through (choices of --input_type), on a
\* machine where the path is there or not (for the camera: is a number or
\* not), the model loads or not, port 5000 is free or not.
StartArgs ==
  [input_type : {"camera", "video", "jpeg"}, path_ok : BOOLEAN,
   model_ok : BOOLEAN, port_ok : BOOLEAN, no_display : BOOLEAN]

InitStartup ==
  /\ now = 1
  /\ fs = FingerState(FINGER_NAMES[1])
  /\ calls = <<>>
  /\ logger = FALSE
  /\ InitProcVars
  /\ InitCamVars
  /\ InitWriterVars({"main"})
  /\ InitDetectVars
  /\ InitTelVars
  /\ InitSrcVars
  /\ args \in StartArgs
  /\ source = "None"
  /\ writer = "None"
  /\ main_pc = "get_source"
  /\ main_entry = "None"
  /\ n_entries = 0
  /\ n_processed = 0
  /\ n_skipped = 0
  /\ cause = "none"
  /\ cut_writes = 0

NextStartup ==
  \/ Start_get_source
  \/ Start_processor
  \/ Start_writer
  \/ Start_telemetry

SpecStartup == InitStartup /\ [][NextStartup]_vars

\* main has ended before its loop began.
Aborted == main_pc \in {"sys_exit", "raised"}

\* C21: for an input that is there, get_source returns an object of the
\* class of its kind, which provides frames, resolution and fps; and main
\* ends before its loop only when the video file or the image directory is
\* not there.
C21_SourceConstructedOrPathMissing ==
  /\ (main_pc # "get_source" /\ args.path_ok)
       => /\ source = CASE args.input_type = "camera" -> "LiveCameraSource"
                        [] args.input_type = "video" -> "VideoFileSource"
                        [] args.input_type = "jpeg" -> "JpegFileSource"
          /\ {"frames", "resolution", "fps"} \subseteq ClassMembers(source)
  /\ Aborted => (args.input_type \in {"video", "jpeg"} /\ ~args.path_ok)


\* ---------------------------------------------------------- main: the loop
\* Line 81: the for statement takes the next entry of source.frames(): a
\* frame, or (from the camera) the None of a lost connection.
Main_next ==
  /\ main_pc = "next"
  /\ n_entries < MaxEntries
  /\ n_entries' = n_entries + 1
  /\ \E e \in {"frame"} \cup (IF source = "LiveCameraSource" THEN {"None"} ELSE {}) :
       main_entry' = e
  /\ main_pc' = "entry"
  /\ UNCHANGED <<args, source, writer, n_processed, n_skipped, cause, cut_writes>>
  /\ UNCHANGED <<now, fingerVars, procVars, camVars, writerVars, detectVars,
                 telVars, srcVars>>

\* Line 81: the file source is exhausted and the for statement ends.
Main_end ==
  /\ main_pc = "next"
  /\ source = "VideoFileSource"
  /\ main_pc' = "finally"
  /\ cause' = "end"
  /\ UNCHANGED <<args, source, writer, main_entry, n_entries, n_processed,
                 n_skipped, cut_writes>>
  /\ UNCHANGED <<now, fingerVars, procVars, camVars, writerVars, detectVars,
                 telVars, srcVars>>

\* Lines 82-88: if frame is None: print, continue.
Main_skip ==
  /\ main_pc = "entry"
  /\ main_entry = "None"
  /\ n_skipped' = n_skipped + 1
  /\ main_pc' = "next"
  /\ UNCHANGED <<args, source, writer, main_entry, n_entries, n_processed,
                 cause, cut_writes>>
  /\ UNCHANGED <<now, fingerVars, procVars, camVars, writerVars, detectVars,
                 telVars, srcVars>>

\* Lines 89-111: processor.process(frame) returns and the loop goes on to
\* the write; or it raises, which only the finally clause takes up.
Main_process ==
  /\ main_pc = "entry"
  /\ main_entry = "frame"
  /\ \/ /\ n_processed' = n_processed + 1
        /\ main_pc' = "write"
        /\ UNCHANGED cause
     \/ /\ main_pc' = "finally"
        /\ cause' = "exception"
        /\ UNCHANGED n_processed
  /\ UNCHANGED <<args, source, writer, main_entry, n_entries, n_skipped,
                 cut_writes>>
  /\ UNCHANGED <<now, fingerVars, procVars, camVars, writerVars, detectVars,
                 telVars, srcVars>>

\* Lines 118-119: writer.write(processed_frame), without a filename.
Main_write ==
  /\ main_pc = "write"
  /\ writer # "None"
  /\ n_writes < n_processed
  /\ Write_call("main")
  /\ t_filename'["main"] = None

\* Lines 122-123: the FPS text is drawn on the frame just written.
Main_draw ==
  /\ main_pc = "write"
  /\ n_writes = n_processed
  /\ Main_putText("main")

\* Lines 127-149: the frame is shown; the loop goes on, or 'q' was pressed
\* in the window: break.
Main_key ==
  /\ main_pc = "write"
  /\ n_writes = n_processed
  /\ t_pc["main"] = "idle"
  /\ pixels[Frame(n_writes)].overlay
  /\ \/ /\ main_pc' = "next"
        /\ UNCHANGED cause
     \/ /\ ~args.no_display
        /\ main_pc' = "finally"
        /\ cause' = "quit"
  /\ UNCHANGED <<args, source, writer, main_entry, n_entries, n_processed,
                 n_skipped, cut_writes>>
  /\ UNCHANGED <<now, fingerVars, procVars, camVars, writerVars, detectVars,
                 telVars, srcVars>>

\* Line 152: KeyboardInterrupt is raised in the main thread, wherever in the
\* try block it stands; if that is inside writer.write, the call ends there.
Main_interrupt ==
  /\ main_pc \in {"next", "entry", "write"}
  /\ main_pc' = "finally"
  /\ cause' = "interrupt"
  /\ IF t_pc["main"] # "idle"
       THEN /\ t_pc' = [t_pc EXCEPT !["main"] = "idle"]
            /\ t_frame' = [t_frame EXCEPT !["main"] = None]
            /\ t_filename' = [t_filename EXCEPT !["main"] = <<>>]
            /\ t_count' = [t_count EXCEPT !["main"] = 0]
            /\ cut_writes' = cut_writes + 1
       ELSE UNCHANGED <<t_pc, t_frame, t_filename, t_count, cut_writes>>
  /\ UNCHANGED <<threads, queue, unfinished, stopped, frame_count, w_pc, item,
                 files, n_writes, stop_state, enq_log, write_log, failed,
                 before_stop, pixels, at_write, img_log>>
  /\ UNCHANGED <<args, source, writer, main_entry, n_entries, n_processed,
                 n_skipped>>
  /\ UNCHANGED <<now, fingerVars, procVars, camVars, detectVars, telVars,
                 srcVars>>

\* Lines 154-157: finally: writer.stop()
Main_stop ==
  /\ main_pc = "finally"
  /\ writer # "None"
  /\ Stop_call("main")

\* Lines 158-160: stop() has returned; processor.close(),
\* cv2.destroyAllWindows(), and main returns or the exception goes on.
Main_exit ==
  /\ main_pc = "finally"
  /\ stop_state = "returned"
  /\ main_pc' = "exited"
  /\ UNCHANGED <<args, source, writer, main_entry, n_entries, n_processed,
                 n_skipped, cause, cut_writes>>
  /\ UNCHANGED <<now, fingerVars, procVars, camVars, writerVars, detectVars,
                 telVars, srcVars>>

\* main at the top of its loop, with a source that comes with a writer.
InitMain ==
  /\ now = 1
  /\ fs = FingerState(FINGER_NAMES[1])
  /\ calls = <<>>
  /\ logger = FALSE
  /\ InitProcVars
  /\ InitCamVars
  /\ InitWriterVars({"main"})
  /\ InitDetectVars
  /\ InitTelVars
  /\ InitSrcVars
  /\ args \in {a \in StartArgs : a.path_ok /\ a.model_ok /\ a.port_ok
                                 /\ a.input_type \in {"camera", "video"}}
  /\ source = IF args.input_type = "camera" THEN "LiveCameraSource"
              ELSE "VideoFileSource"
  /\ writer = "AsyncWriter"
  /\ main_pc = "next"
  /\ main_entry = "None"
  /\ n_entries = 0
  /\ n_processed = 0
  /\ n_skipped = 0
  /\ cause = "none"
  /\ cut_writes = 0

NextMain ==
  \/ Main_next
  \/ Main_end
  \/ Main_skip
  \/ Main_process
  \/ Main_write
  \/ Write_check("main")
  \/ Write_name("main")
  \/ Write_load("main")
  \/ Write_store("main")
  \/ Write_put("main")
  \/ Main_draw
  \/ Main_key
  \/ Main_interrupt
  \/ Main_stop
  \/ Stop_join("main")
  \/ Main_exit
  \/ W_loop
  \/ W_get
  \/ W_timeout
  \/ W_imwrite

\* No thread is starved; whether the loop is left at all is up to the
\* source, the user and the frames.
MainFairness ==
  /\ WF_vars(W_loop)
  /\ WF_vars(W_get)
  /\ WF_vars(W_timeout)
  /\ WF_vars(W_imwrite)
  /\ WF_vars(Main_stop)
  /\ WF_vars(Stop_join("main"))
  /\ WF_vars(Main_exit)

SpecMain == InitMain /\ [][NextMain]_vars /\ MainFairness

\* C22: when main has left its loop and ended, stop() was called and has
\* returned, and every frame the loop passed to write() was handed to the
\* disk write; the None entries were skipped, neither processed nor written.
C22_ExitAfterStopAllWritten ==
  /\ main_pc = "exited"
       => /\ stop_state = "returned"
          /\ w_pc = "exited"
          /\ Len(write_log) = n_writes
  /\ n_writes <= n_processed
  /\ n_processed + n_skipped <= n_entries


\* ------------------------------- the camera loop, the writer and telemetry
\* The main thread is inside frames() with the camera gone: opening it,
\* finding it not opened, or asleep after the read that failed.
InReconnect == CamRunning /\ cap = "None"

\* main.py line 81: the main thread, back from write() for every frame it
\* got, asks the camera source for the next entry.
Pipe_next ==
  /\ t_pc["main"] = "idle"
  /\ u_pc = "idle"
  /\ n_writes >= frame_idx
  /\ Cam_next

\* Line 111: with a frame in hand the main thread calls
\* telemetry.state.update, here with the same pair of arguments each time.
Pipe_update ==
  /\ cam_pc = "yield_frame"
  /\ t_pc["main"] = "idle"
  /\ Len(upd_log) < frame_idx
  /\ n_writes < frame_idx
  /\ U_call
  /\ u_args' = [fps |-> 1234, hands_detected |-> 1]

\* Lines 118-119: back from update, the main thread calls
\* writer.write(processed_frame).
Pipe_write ==
  /\ cam_pc = "yield_frame"
  /\ u_pc = "idle"
  /\ Len(upd_log) >= (IF frame_idx <= MaxUpdates THEN frame_idx ELSE MaxUpdates)
  /\ n_writes < frame_idx
  /\ Write_call("main")
  /\ t_filename'["main"] = None

\* telemetry.py lines 33-39: a GET /api/status that arrives while the main
\* thread is in the reconnect path.
Pipe_snapshot ==
  /\ InReconnect
  /\ S_call

\* The camera source a while after its start: the device has not opened
\* yet, frames() has gone round its loop MaxCamLog times and is at the top
\* of it again, with nothing yielded.
InitCamVars_NotYetOpened ==
  /\ cap = "None"
  /\ cam_fps = "None"
  /\ frame_idx = 0
  /\ cam_pc = "top"
  /\ cam_log = [i \in 1..MaxCamLog |-> "open_failed"]

\* The main thread on a camera source, the writer's worker thread and the
\* HTTP thread of telemetry.
InitPipe ==
  /\ now = 1
  /\ fs = FingerState(FINGER_NAMES[1])
  /\ calls = <<>>
  /\ logger = FALSE
  /\ InitProcVars
  /\ InitCamVars_NotYetOpened
  /\ InitWriterVars({"main"})
  /\ InitDetectVars
  /\ InitTelVars
  /\ InitSrcVars
  /\ InitMainVars

NextPipe ==
  \/ Pipe_next
  \/ Cam_connect
  \/ Cam_read
  \/ Cam_loop
  \/ Cam_sleep
  \/ Pipe_update
  \/ U_acquire
  \/ U_fps
  \/ U_hands_detected
  \/ U_status
  \/ U_release
  \/ Pipe_write
  \/ Write_check("main")
  \/ Write_name("main")
  \/ Write_load("main")
  \/ Write_store("main")
  \/ Write_put("main")
  \/ W_loop
  \/ W_get
  \/ W_timeout
  \/ W_imwrite
  \/ Pipe_snapshot
  \/ S_acquire
  \/ S_status
  \/ S_current_fps
  \/ S_hands_detected
  \/ S_uptime_seconds
  \/ S_return

\* No thread is starved: the worker, the HTTP thread inside a call, and the
\* main thread inside frames(), update or write always go on. Whether the
\* camera ever opens again is up to the device.
PipeFairness ==
  /\ WF_vars(W_loop) /\ WF_vars(W_get) /\ WF_vars(W_timeout) /\ WF_vars(W_imwrite)
  /\ WF_vars(S_acquire) /\ WF_vars(S_status) /\ WF_vars(S_current_fps)
  /\ WF_vars(S_hands_detected) /\ WF_vars(S_uptime_seconds) /\ WF_vars(S_return)
  /\ WF_vars(U_acquire) /\ WF_vars(U_fps) /\ WF_vars(U_hands_detected)
  /\ WF_vars(U_status) /\ WF_vars(U_release)
  /\ WF_vars(Cam_connect) /\ WF_vars(Cam_read) /\ WF_vars(Cam_loop)
  /\ WF_vars(Cam_sleep)

SpecPipe == InitPipe /\ [][NextPipe]_vars /\ PipeFairness


\* C23: while the main thread is in the reconnect path of the camera source
\* it is in no write or update call and does not hold the telemetry lock;
\* every task put on the queue is handed to the disk write, also when the
\* camera never comes back; and every snapshot call returns.
C23_WorkerAndTelemetryGoOn ==
  /\ [](InReconnect => /\ t_pc["main"] = "idle"
                       /\ u_pc = "idle"
                       /\ lock # "update")
  /\ \A k \in 1..MaxWrites :
       (InReconnect /\ Len(enq_log) >= k) ~> (Len(write_log) >= k)
  /\ (<>[]InReconnect) => <>[](queue = <<>> /\ Len(write_log) = Len(enq_log))
  /\ (s_pc # "idle") ~> (s_pc = "idle")

\* The camera was open, a frame was queued and a read then failed; with the
\* main thread in the reconnect path the worker is about to write the
\* frame and the HTTP thread is inside get_snapshot, holding the lock.
C23_Witness ==
  /\ InReconnect
  /\ frame_idx >= 1
  /\ w_pc = "imwrite"
  /\ lock = "get_snapshot"


\* C24: no accepted task is stranded: once the worker thread has exited the
\* queue is empty and every task that write() put on it was handed to the
\* disk write.
C24_NoTaskStranded ==
  w_pc = "exited" => /\ queue = <<>>
                     /\ Len(write_log) = Len(enq_log)

====
